---- MODULE Spec2Model ----
(***************************************************************************)
(* Verification model of two PennyLane helpers:                            *)
(*   pennylane/collections/sum.py          _get_sum_func, sum              *)
(*   pennylane/templates/embeddings/angle.py                               *)
(*                                  AngleEmbedding, _broadcast_no_shape_check *)
(* Python values are modelled as records carrying their type, exceptions   *)
(* as records of a type and a message (a sequence of words), and a call's  *)
(* outcome as a record that either returns a value or raises an exception. *)
(***************************************************************************)
EXTENDS Integers, Sequences, FiniteSets, TLC

VARIABLES importable, x, resolved, sumResult, lazies, evals, lazyCalls,
          lastValue, embed

sumVars == <<importable, x, resolved, sumResult, lazies, evals, lazyCalls, lastValue>>
vars == <<importable, x, resolved, sumResult, lazies, evals, lazyCalls, lastValue, embed>>

(***************************** bounds **************************************)
MaxUnits == 2       \* computation units in a collection
MaxLazy == 2        \* lazy functions obtained from sum
MaxCalls == 2       \* invocations of lazy functions
MaxParam == 2       \* parameter values handed to a lazy function

(************************ Python values and outcomes ***********************)
None == [type |-> "NoneType", val |-> ""]
Str(s) == [type |-> "str", val |-> s]
IntVal(s) == [type |-> "int", val |-> s]

Exc(t, m) == [type |-> t, msg |-> m]
NoExc == Exc("", <<>>)

\* Outcome of a call: a return value or a raised exception.
Return(v) == [kind |-> "return", value |-> v, exc |-> NoExc]
Raise(d, e) == [kind |-> "raise", value |-> d, exc |-> e]

(*************************** collections/sum.py ****************************)
Modules == {"tensorflow", "torch", "autograd", "numpy"}

\* An import statement inside _get_sum_func: succeeds when the module can be
\* imported in this interpreter, raises ImportError otherwise.
Import(module, fn, env) ==
    IF module \in env THEN Return(fn)
    ELSE Raise("", Exc("ImportError", <<"No", "module", "named", module>>))

get_sum_func_unknown_defaults(interface, env) ==
    IF interface = Str("tf") THEN Import("tensorflow", "tf.reduce_sum", env)
    ELSE IF interface = Str("torch") THEN Import("torch", "torch.sum", env)
    ELSE IF interface \in {Str("autograd"), Str("numpy")}
         THEN Import("autograd", "autograd.numpy.sum", env)
    ELSE Import("numpy", "numpy.sum", env)

get_sum_func_swapped(interface, env) ==
    IF interface = Str("tf") THEN Import("torch", "torch.sum", env)
    ELSE IF interface = Str("torch") THEN Import("tensorflow", "tf.reduce_sum", env)
    ELSE IF interface \in {Str("autograd"), Str("numpy")}
         THEN Import("autograd", "autograd.numpy.sum", env)
    ELSE IF interface = None THEN Import("numpy", "numpy.sum", env)
    ELSE Raise("", Exc("ValueError", <<"Unknown", "interface", interface.val>>))

get_sum_func_fallback(interface, env) ==
    IF interface = Str("tf") THEN Import("tensorflow", "tf.reduce_sum", env)
    ELSE IF interface = Str("torch") THEN Import("torch", "torch.sum", env)
    ELSE IF interface \in {Str("autograd"), Str("numpy"), None}
         THEN IF "autograd" \in env THEN Import("autograd", "autograd.numpy.sum", env)
              ELSE Import("numpy", "numpy.sum", env)
    ELSE Raise("", Exc("ValueError", <<"Unknown", "interface", interface.val>>))

\* _get_sum_func(interface), evaluated in an interpreter where the modules
\* of env can be imported.
_get_sum_func(interface, env) ==
    IF interface = Str("tf") THEN Import("tensorflow", "tf.reduce_sum", env)
    ELSE IF interface = Str("torch") THEN Import("torch", "torch.sum", env)
    ELSE IF interface \in {Str("autograd"), Str("numpy")}
         THEN Import("autograd", "autograd.numpy.sum", env)
    ELSE IF interface = None THEN Import("numpy", "numpy.sum", env)
    ELSE Raise("", Exc("ValueError", <<"Unknown", "interface", interface.val>>))

\* A lazy function and the placeholder for "nothing returned".
Lazy(func, coll) == [func |-> func, units |-> coll.units]
NoLazy == [func |-> "", units |-> 0]

\* apply(func, qnode_collection): the lazy function; nothing is evaluated.
apply(func, coll) == Lazy(func, coll)

\* getattr(obj, "interface", None)
getattr_interface(obj) == IF obj.hasInterface THEN obj.interface ELSE None

\* obj.interface : plain attribute access
attr_interface(obj) ==
    IF obj.hasInterface THEN Return(obj.interface)
    ELSE Raise(None, Exc("AttributeError",
                         <<"object", "has", "no", "attribute", "interface">>))

\* Outcome of sum(x): the call's outcome and the number of times the call
\* itself evaluated the collection.
SumOutcome(o, n) == [kind |-> o.kind, value |-> o.value, exc |-> o.exc, evaluations |-> n]

sum_eager(coll, env) ==
    LET interface == getattr_interface(coll)
        attr == attr_interface(coll)
        sum_fn == IF attr.kind = "raise" THEN Raise("", attr.exc)
                  ELSE _get_sum_func(attr.value, env)
    IN  IF sum_fn.kind = "raise" THEN SumOutcome(Raise(NoLazy, sum_fn.exc), 0)
        ELSE SumOutcome(Return(apply(sum_fn.value, coll)), 1)

sum(coll, env) ==
    LET interface == getattr_interface(coll)
        attr == attr_interface(coll)
        sum_fn == IF attr.kind = "raise" THEN Raise("", attr.exc)
                  ELSE _get_sum_func(attr.value, env)
    IN  IF sum_fn.kind = "raise" THEN SumOutcome(Raise(NoLazy, sum_fn.exc), 0)
        ELSE SumOutcome(Return(apply(sum_fn.value, coll)), 0)

\* A computation unit evaluated on shared parameters, and a reducer applied
\* to the units' results.
UnitValue(i, params) == i * params

RECURSIVE SeqSum(_)
SeqSum(s) == IF s = <<>> THEN 0 ELSE Head(s) + SeqSum(Tail(s))

Reduce(func, results) == [backend |-> func, value |-> SeqSum(results)]
NoValue == [backend |-> "", value |-> 0]

\* The lazy function called with parameters: every unit is evaluated, in
\* order, and the reducer is applied to the results.
LazyCall(lazy, params) ==
    [evaluated |-> 1 .. lazy.units,
     value |-> Reduce(lazy.func, [i \in 1 .. lazy.units |-> UnitValue(i, params)])]

(******************************* inputs ************************************)
ValidTags == {None, Str("tf"), Str("torch"), Str("autograd"), Str("numpy")}
InvalidTags == {Str("jax"), Str("TF"), Str("None"), IntVal("0")}
Tags == ValidTags \cup InvalidTags

Collections ==
    [hasInterface : {TRUE}, interface : Tags, units : 1 .. MaxUnits]
    \cup [hasInterface : {FALSE}, interface : {None}, units : 1 .. MaxUnits]

NoResolve == [called |-> FALSE, interface |-> None, result |-> Return("")]
NoSum == [called |-> FALSE, outcome |-> SumOutcome(Return(NoLazy), 0)]

(******************************* behaviour *********************************)
\* A direct call _get_sum_func(interface).
ResolveReducer(interface) ==
    /\ resolved' = [called |-> TRUE, interface |-> interface,
                    result |-> _get_sum_func(interface, importable)]
    /\ UNCHANGED <<importable, x, sumResult, lazies, evals, lazyCalls, lastValue, embed>>

\* A call sum(x).
Sum ==
    /\ Len(lazies) < MaxLazy
    /\ LET r == sum(x, importable)
       IN  /\ sumResult' = [called |-> TRUE, outcome |-> r]
           /\ lazies' = IF r.kind = "return" THEN Append(lazies, r.value) ELSE lazies
           /\ evals' = [i \in 1 .. x.units |-> evals[i] + r.evaluations]
    /\ UNCHANGED <<importable, x, resolved, lazyCalls, lastValue, embed>>

\* A call f(params) of a lazy function f returned earlier by sum(x).
InvokeLazy(k, params) ==
    /\ k \in 1 .. Len(lazies)
    /\ lazyCalls < MaxCalls
    /\ LET r == LazyCall(lazies[k], params)
       IN  /\ evals' = [i \in 1 .. x.units |->
                           IF i \in r.evaluated THEN evals[i] + 1 ELSE evals[i]]
           /\ lastValue' = r.value
    /\ lazyCalls' = lazyCalls + 1
    /\ UNCHANGED <<importable, x, resolved, sumResult, lazies, embed>>

NextSum ==
    \/ \E interface \in Tags : ResolveReducer(interface)
    \/ Sum
    \/ \E k \in 1 .. MaxLazy, params \in 1 .. MaxParam : InvokeLazy(k, params)

(********************** templates/embeddings/angle.py **********************)
MaxWires == 2       \* wires handed to AngleEmbedding

WireIds == {"a", "b", "c"}
Angles == {1, 2}

\* "{}".format(n) for the small numbers that occur.
ToStr(n) ==
    CASE n = 0 -> "0" [] n = 1 -> "1" [] n = 2 -> "2" [] n = 3 -> "3"
      [] n = 4 -> "4" [] n = 5 -> "5" [] n = 6 -> "6" [] OTHER -> "many"

\* "{}".format(shape) of a shape tuple, as words.
ShapeStr(shape) == <<"(">> \o [i \in 1 .. Len(shape) |-> ToStr(shape[i])] \o <<")">>

\* sub in s, for messages held as sequences of words.
Contains(sub, s) ==
    \E k \in 0 .. (Len(s) - Len(sub)) :
        \A i \in 1 .. Len(sub) : s[k + i] = sub[i]

\* isinstance(e, ValueError): ValueError and its subclasses.
ValueErrorTypes == {"ValueError", "UnicodeError"}

\* Wires(wires): the canonical ordered collection of the given unique wires.
Wires(wires) == wires

\* get_shape(features)
get_shape(features) == features.shape

\* check_shape(inpt, target_shape, bound="max", msg): the raised error, or NoExc.
check_shape(inpt, target_shape, msg) ==
    LET shape == get_shape(inpt)
    IN  IF Len(shape) # Len(target_shape) THEN Exc("ShapeError", msg)
        ELSE IF \E i \in 1 .. Len(shape) : shape[i] > target_shape[i]
             THEN Exc("ShapeError", msg)
        ELSE NoExc

\* check_type(element, [str], msg)
check_type(element, types, msg) ==
    IF element.type \in types THEN NoExc ELSE Exc("TypeError", msg)

\* check_is_in_options(element, options, msg)
check_is_in_options(element, options, msg) ==
    IF element.val \in options THEN NoExc ELSE Exc("InvalidOptionError", msg)

\* An operation queued by constructing unitary(angle, wires=wire).
Op(unitary, angle, wire) == [name |-> unitary, angle |-> angle, wire |-> wire]

NoFault == [at |-> 0, exc |-> NoExc]

\* Outcome of the broadcast primitive and of its wrapper: returned or raised,
\* with the operations queued before that.
BOutcome(kind, exc, ops) == [kind |-> kind, exc |-> exc, ops |-> ops]

MismatchMsg(expected, got) ==
    <<"'parameters'", "must", "contain", "entries", "for", ToStr(expected),
      "unitaries", ";", "got", ToStr(got), "entries">>

\* broadcast(unitary, pattern="single", wires, parameters): checks that there
\* is one parameter per wire, then constructs unitary(parameters[i],
\* wires=wires[i]) wire by wire; the constructor raises fault.exc at wire
\* number fault.at (0: never), which ends the loop.
broadcast(unitary, pattern, wires, parameters, fault) ==
    LET n == Len(wires)
        got == get_shape(parameters)[1]
        stop == IF fault.at \in 1 .. n THEN fault.at - 1 ELSE n
        ops == [i \in 1 .. stop |-> Op(unitary, parameters.vals[i], wires[i])]
    IN  IF got # n
        THEN BOutcome("raise", Exc("ValueError", MismatchMsg(n, got)), <<>>)
        ELSE IF fault.at \in 1 .. n THEN BOutcome("raise", fault.exc, ops)
        ELSE BOutcome("return", NoExc, ops)

\* Outcome of _broadcast_no_shape_check: its own outcome and what the
\* broadcast primitive did inside it.
WOutcome(kind, exc, b) ==
    [kind |-> kind, exc |-> exc, ops |-> b.ops, primitive |-> [kind |-> b.kind, exc |-> b.exc]]

broadcast_no_shape_check_swallow_all(unitary, pattern, wires, parameters, fault) ==
    LET b == broadcast(unitary, pattern, wires, parameters, fault)
    IN  IF b.kind = "raise" /\ b.exc.type \in ValueErrorTypes
        THEN WOutcome("return", NoExc, b)
        ELSE WOutcome(b.kind, b.exc, b)

_broadcast_no_shape_check(unitary, pattern, wires, parameters, fault) ==
    LET b == broadcast(unitary, pattern, wires, parameters, fault)
        msg == <<"must", "contain", "entries", "for", ToStr(Len(wires)), "unitaries">>
    IN  IF b.kind = "raise" /\ b.exc.type \in ValueErrorTypes
        THEN IF ~ Contains(msg, b.exc.msg)
             THEN WOutcome("raise", b.exc, b)
             ELSE WOutcome("return", NoExc, b)
        ELSE WOutcome(b.kind, b.exc, b)

NoPrimitive == [kind |-> "", exc |-> NoExc]

\* Outcome of AngleEmbedding: returned or raised, the operations queued, how
\* often the broadcast primitive was called and what it did.
EOutcome(kind, exc, ops, calls, primitive) ==
    [kind |-> kind, exc |-> exc, ops |-> ops, broadcastCalls |-> calls,
     primitive |-> primitive]

Failed(exc) == EOutcome("raise", exc, <<>>, 0, NoPrimitive)
Broadcasted(w) == EOutcome(w.kind, w.exc, w.ops, 1, w.primitive)

ShapeMsg(features, wires) ==
    <<"'features'", "must", "be", "of", "shape">> \o ShapeStr(<<Len(wires)>>)
    \o <<"or", "smaller", ";", "got">> \o ShapeStr(get_shape(features))
TypeMsg(rotation) == <<"'rotation'", "must", "be", "a", "string", ";", "got", rotation.val>>
OptionMsg(rotation) ==
    <<"did", "not", "recognize", "option", rotation.val, "for", "'rotation'">>

AngleEmbedding_type_first(features, wires0, rotation, fault) ==
    LET wires == Wires(wires0)
        e1 == check_shape(features, <<Len(wires)>>, ShapeMsg(features, wires))
        e2 == check_type(rotation, {"str"}, TypeMsg(rotation))
        e3 == check_is_in_options(rotation, {"X", "Y", "Z"}, OptionMsg(rotation))
    IN  IF e2 # NoExc THEN Failed(e2)
        ELSE IF e1 # NoExc THEN Failed(e1)
        ELSE IF e3 # NoExc THEN Failed(e3)
        ELSE IF rotation = Str("X")
             THEN Broadcasted(_broadcast_no_shape_check("RX", "single", wires, features, fault))
        ELSE IF rotation = Str("Y")
             THEN Broadcasted(_broadcast_no_shape_check("RY", "single", wires, features, fault))
        ELSE IF rotation = Str("Z")
             THEN Broadcasted(_broadcast_no_shape_check("RZ", "single", wires, features, fault))
        ELSE EOutcome("return", NoExc, <<>>, 0, NoPrimitive)

AngleEmbedding_no_option_check(features, wires0, rotation, fault) ==
    LET wires == Wires(wires0)
        e1 == check_shape(features, <<Len(wires)>>, ShapeMsg(features, wires))
        e2 == check_type(rotation, {"str"}, TypeMsg(rotation))
    IN  IF e1 # NoExc THEN Failed(e1)
        ELSE IF e2 # NoExc THEN Failed(e2)
        ELSE IF rotation = Str("X")
             THEN Broadcasted(_broadcast_no_shape_check("RX", "single", wires, features, fault))
        ELSE IF rotation = Str("Y")
             THEN Broadcasted(_broadcast_no_shape_check("RY", "single", wires, features, fault))
        ELSE IF rotation = Str("Z")
             THEN Broadcasted(_broadcast_no_shape_check("RZ", "single", wires, features, fault))
        ELSE EOutcome("return", NoExc, <<>>, 0, NoPrimitive)

AngleEmbedding_y_as_x(features, wires0, rotation, fault) ==
    LET wires == Wires(wires0)
        e1 == check_shape(features, <<Len(wires)>>, ShapeMsg(features, wires))
        e2 == check_type(rotation, {"str"}, TypeMsg(rotation))
        e3 == check_is_in_options(rotation, {"X", "Y", "Z"}, OptionMsg(rotation))
    IN  IF e1 # NoExc THEN Failed(e1)
        ELSE IF e2 # NoExc THEN Failed(e2)
        ELSE IF e3 # NoExc THEN Failed(e3)
        ELSE IF rotation = Str("X")
             THEN Broadcasted(_broadcast_no_shape_check("RX", "single", wires, features, fault))
        ELSE IF rotation = Str("Y")
             THEN Broadcasted(_broadcast_no_shape_check("RX", "single", wires, features, fault))
        ELSE IF rotation = Str("Z")
             THEN Broadcasted(_broadcast_no_shape_check("RZ", "single", wires, features, fault))
        ELSE EOutcome("return", NoExc, <<>>, 0, NoPrimitive)

\* AngleEmbedding(features, wires, rotation), with the operation constructor
\* behaving as fault says.
AngleEmbedding(features, wires0, rotation, fault) ==
    LET wires == Wires(wires0)
        e1 == check_shape(features, <<Len(wires)>>, ShapeMsg(features, wires))
        e2 == check_type(rotation, {"str"}, TypeMsg(rotation))
        e3 == check_is_in_options(rotation, {"X", "Y", "Z"}, OptionMsg(rotation))
    IN  IF e1 # NoExc THEN Failed(e1)
        ELSE IF e2 # NoExc THEN Failed(e2)
        ELSE IF e3 # NoExc THEN Failed(e3)
        ELSE IF rotation = Str("X")
             THEN Broadcasted(_broadcast_no_shape_check("RX", "single", wires, features, fault))
        ELSE IF rotation = Str("Y")
             THEN Broadcasted(_broadcast_no_shape_check("RY", "single", wires, features, fault))
        ELSE IF rotation = Str("Z")
             THEN Broadcasted(_broadcast_no_shape_check("RZ", "single", wires, features, fault))
        ELSE EOutcome("return", NoExc, <<>>, 0, NoPrimitive)

(******************************* inputs ************************************)
SeqsUpTo(S, n) == UNION {[1 .. k -> S] : k \in 0 .. n}

\* Sequences of unique wire labels, one wire at least.
WireSeqs ==
    {w \in SeqsUpTo(WireIds, MaxWires) :
        /\ Len(w) >= 1
        /\ \A i, j \in 1 .. Len(w) : i # j => w[i] # w[j]}

\* Feature arrays: 1-D of every length up to one more than the wires, a
\* scalar (0-D) and 2-D arrays with one column.
Features1D == {[shape |-> <<Len(v)>>, vals |-> v] : v \in SeqsUpTo(Angles, MaxWires + 1)}
Features0D == {[shape |-> <<>>, vals |-> <<a>>] : a \in Angles}
Features2D == {[shape |-> <<Len(v), 1>>, vals |-> v] : v \in SeqsUpTo({1}, MaxWires + 1) \ {<<>>}}
FeatureArrays == Features1D \cup Features0D \cup Features2D

Rotations == {Str("X"), Str("Y"), Str("Z"), Str("W"), Str("x"), IntVal("1"), None}

\* Errors an operation constructor may raise inside the broadcast primitive.
ConstructorErrors(n) ==
    {Exc("ValueError", MismatchMsg(n, n)),
     Exc("ValueError", MismatchMsg(n + 1, n)),
     Exc("ValueError", <<"invalid", "parameter">>),
     Exc("UnicodeError", MismatchMsg(n, n)),
     Exc("TypeError", MismatchMsg(n, n)),
     Exc("RuntimeError", <<"device", "failure">>)}

Faults(n) == {NoFault} \cup [at : 1 .. n, exc : ConstructorErrors(n)]

NoEmbed ==
    [called |-> FALSE, features |-> [shape |-> <<>>, vals |-> <<>>], wires |-> <<>>,
     rotation |-> None, fault |-> NoFault,
     outcome |-> EOutcome("", NoExc, <<>>, 0, NoPrimitive)]

(******************************* behaviour *********************************)
\* The call AngleEmbedding(features, wires, rotation) in a fresh queuing
\* context; a behaviour holds one call.
Embed(features, wires, rotation, fault) ==
    /\ ~ embed.called
    /\ embed' = [called |-> TRUE, features |-> features, wires |-> wires,
                 rotation |-> rotation, fault |-> fault,
                 outcome |-> AngleEmbedding(features, wires, rotation, fault)]
    /\ UNCHANGED sumVars

NextEmbed ==
    /\ ~ embed.called
    /\ \E features \in FeatureArrays, wires \in WireSeqs, rotation \in Rotations :
          \E fault \in Faults(Len(wires)) : Embed(features, wires, rotation, fault)

\* Before any call: any set of importable modules and any collection.
InitSum ==
    /\ importable \in SUBSET Modules
    /\ x \in Collections
    /\ resolved = NoResolve
    /\ sumResult = NoSum
    /\ lazies = <<>>
    /\ evals = [i \in 1 .. x.units |-> 0]
    /\ lazyCalls = 0
    /\ lastValue = NoValue
    /\ embed = NoEmbed

\* Before the embedding call; the summation helpers stay unused.
InitEmbed ==
    /\ importable = Modules
    /\ x = [hasInterface |-> TRUE, interface |-> None, units |-> 1]
    /\ resolved = NoResolve
    /\ sumResult = NoSum
    /\ lazies = <<>>
    /\ evals = [i \in 1 .. x.units |-> 0]
    /\ lazyCalls = 0
    /\ lastValue = NoValue
    /\ embed = NoEmbed

\* The summation helpers alone, and the embedding template alone.
SpecSum == InitSum /\ [][NextSum]_vars
SpecEmbed == InitEmbed /\ [][NextEmbed]_vars

(******************************* properties ********************************)
\* The summation primitive and the module of the backend a valid tag names.
PrimitiveOf(tag) ==
    CASE tag = Str("tf") -> "tf.reduce_sum"
      [] tag = Str("torch") -> "torch.sum"
      [] tag \in {Str("autograd"), Str("numpy")} -> "autograd.numpy.sum"
      [] tag = None -> "numpy.sum"

BackendOf(tag) ==
    CASE tag = Str("tf") -> "tensorflow"
      [] tag = Str("torch") -> "torch"
      [] tag \in {Str("autograd"), Str("numpy")} -> "autograd"
      [] tag = None -> "numpy"

\* C1: for every valid interface tag, _get_sum_func returns the summation
\* primitive of the tag's own backend ("tf": TensorFlow reduce_sum, "torch":
\* Torch sum, "autograd"/"numpy": autograd-numpy sum, None: numpy sum)
\* whenever that backend can be imported; it never returns another backend's
\* primitive and never reports a valid tag as unknown.
C1_ValidTagOwnPrimitive ==
    (resolved.called /\ resolved.interface \in ValidTags) =>
        /\ BackendOf(resolved.interface) \in importable =>
               resolved.result = Return(PrimitiveOf(resolved.interface))
        /\ resolved.result.kind = "return" =>
               resolved.result.value = PrimitiveOf(resolved.interface)
        /\ resolved.result.kind = "raise" =>
               resolved.result.exc.type = "ImportError"

C1_Witness ==
    /\ resolved.called
    /\ resolved.interface = Str("torch")
    /\ resolved.result = Return("torch.sum")
    /\ "tensorflow" \in importable

\* C2: for a collection whose interface tag is none of "tf", "torch",
\* "autograd", "numpy", None, the call sum(x) itself raises ValueError
\* "Unknown interface ..."; it returns no lazy function and no computation
\* unit has been evaluated.
C2_InvalidTagFailsAtSum ==
    (sumResult.called /\ x.hasInterface /\ x.interface \notin ValidTags) =>
        /\ sumResult.outcome.kind = "raise"
        /\ sumResult.outcome.exc.type = "ValueError"
        /\ SubSeq(sumResult.outcome.exc.msg, 1, 2) = <<"Unknown", "interface">>
        /\ sumResult.outcome.value = NoLazy
        /\ lazies = <<>>
        /\ \A i \in 1 .. x.units : evals[i] = 0

C2_Witness ==
    /\ sumResult.called
    /\ x.hasInterface
    /\ x.interface = Str("jax")
    /\ sumResult.outcome.exc = Exc("ValueError", <<"Unknown", "interface", "jax">>)

\* C3: the call sum(x) evaluates no computation unit; units are evaluated
\* only by invocations of the returned functions, and every invocation
\* evaluates every unit once more: each unit has been evaluated exactly as
\* often as lazy functions have been invoked.
C3_LazyNoCaching ==
    /\ sumResult.outcome.evaluations = 0
    /\ \A i \in 1 .. x.units : evals[i] = lazyCalls

C3_Witness ==
    /\ sumResult.called
    /\ Len(lazies) >= 1
    /\ lazyCalls = 2
    /\ x.units = 2
    /\ \A i \in 1 .. x.units : evals[i] = 2

\* C9: for a collection that carries no interface attribute, as for one whose
\* tag is None, sum(x) does not fail and returns a lazy function reducing
\* with the default numeric-array summation (numpy importable).
C9_UnsetTagSums ==
    (sumResult.called /\ (~ x.hasInterface \/ x.interface = None) /\ "numpy" \in importable) =>
        /\ sumResult.outcome.kind = "return"
        /\ sumResult.outcome.value.func = "numpy.sum"

\* C10 as stated: for "autograd", "numpy" and None, _get_sum_func never fails;
\* it returns the autograd sum when autograd can be imported and the plain
\* numpy sum when it cannot.
C10_FallsBackToNumpy ==
    (resolved.called /\ resolved.interface \in {Str("autograd"), Str("numpy"), None}) =>
        /\ resolved.result.kind = "return"
        /\ resolved.result.value =
               IF "autograd" \in importable THEN "autograd.numpy.sum" ELSE "numpy.sum"

\* C10 amended: for "autograd" and "numpy" _get_sum_func returns the autograd
\* sum when autograd can be imported and raises the ImportError when it cannot
\* (no fallback); for None it returns the plain numpy sum when numpy can be
\* imported, whether or not autograd is available, and raises the ImportError
\* when it cannot.
C10_NoFallback ==
    /\ (resolved.called /\ resolved.interface \in {Str("autograd"), Str("numpy")}) =>
           IF "autograd" \in importable
           THEN resolved.result = Return("autograd.numpy.sum")
           ELSE /\ resolved.result.kind = "raise"
                /\ resolved.result.exc.type = "ImportError"
    /\ (resolved.called /\ resolved.interface = None) =>
           IF "numpy" \in importable
           THEN resolved.result = Return("numpy.sum")
           ELSE /\ resolved.result.kind = "raise"
                /\ resolved.result.exc.type = "ImportError"

C10_Witness ==
    /\ resolved.called
    /\ resolved.interface = Str("autograd")
    /\ "autograd" \notin importable
    /\ "numpy" \in importable
    /\ resolved.result.exc.type = "ImportError"

\* The case of the embedding call at hand.
ValidAxis == embed.rotation \in {Str("X"), Str("Y"), Str("Z")}
OneD == Len(embed.features.shape) = 1
ShapeOk == OneD /\ embed.features.shape[1] <= Len(embed.wires)
AxisOp == CASE embed.rotation = Str("X") -> "RX"
            [] embed.rotation = Str("Y") -> "RY"
            [] embed.rotation = Str("Z") -> "RZ"
ExpectedOps(k) ==
    [i \in 1 .. k |->
        [name |-> AxisOp, angle |-> embed.features.vals[i], wire |-> embed.wires[i]]]

\* C4: for a valid rotation axis and len(features) = len(wires) (operation
\* constructors raising nothing), AngleEmbedding returns normally having
\* queued exactly len(wires) operations, the i-th being the rotation of the
\* requested axis with angle features[i] on wires[i].
C4_OneRotationPerWire ==
    (/\ embed.called /\ ValidAxis /\ OneD
     /\ embed.features.shape[1] = Len(embed.wires)
     /\ embed.fault = NoFault) =>
        /\ embed.outcome.kind = "return"
        /\ embed.outcome.ops = ExpectedOps(Len(embed.wires))

C4_Witness ==
    /\ embed.called
    /\ embed.rotation = Str("Y")
    /\ embed.wires = <<"b", "a">>
    /\ embed.features.vals = <<1, 2>>
    /\ embed.outcome.ops = <<[name |-> "RY", angle |-> 1, wire |-> "b"],
                             [name |-> "RY", angle |-> 2, wire |-> "a"]>>

\* C5: for a valid rotation axis and len(features) < len(wires),
\* AngleEmbedding returns normally having queued exactly len(features)
\* operations, the i-th with angle features[i] on wires[i], also when the
\* broadcast primitive raises its count-mismatch error.
C5_FewerFeaturesEmbedded ==
    (/\ embed.called /\ ValidAxis /\ OneD
     /\ embed.features.shape[1] < Len(embed.wires)) =>
        /\ embed.outcome.kind = "return"
        /\ embed.outcome.ops = ExpectedOps(embed.features.shape[1])

\* C6: for features that are not 1-D or longer than the wires, AngleEmbedding
\* fails with the ShapeError, whatever the rotation argument is, and no
\* operation has been queued nor the broadcast primitive called.
C6_ShapeErrorFirst ==
    (embed.called /\ ~ ShapeOk) =>
        /\ embed.outcome.kind = "raise"
        /\ embed.outcome.exc.type = "ShapeError"
        /\ embed.outcome.ops = <<>>
        /\ embed.outcome.broadcastCalls = 0

C6_Witness ==
    /\ embed.called
    /\ OneD
    /\ embed.features.shape[1] > Len(embed.wires)
    /\ embed.rotation = IntVal("1")
    /\ embed.outcome.exc.type = "ShapeError"

C8_OnlyMismatchSwallowed ==
    (embed.called /\ embed.outcome.primitive.kind = "raise") =>
        IF /\ embed.outcome.primitive.exc.type \in ValueErrorTypes
           /\ Contains(<<"must", "contain", "entries", "for",
                         ToStr(Len(embed.wires)), "unitaries">>,
                       embed.outcome.primitive.exc.msg)
        THEN embed.outcome.kind = "return"
        ELSE /\ embed.outcome.kind = "raise"
             /\ embed.outcome.exc = embed.outcome.primitive.exc

C8_Witness ==
    /\ embed.called
    /\ embed.outcome.primitive.kind = "raise"
    /\ embed.outcome.primitive.exc.type = "ValueError"
    /\ embed.outcome.kind = "return"
    /\ embed.features.shape[1] < Len(embed.wires)

====
